---- MODULE Spec2Model ----
(***************************************************************************)
(* Model of heat/engine/resources/neutron/net.py: the OS::Neutron::Net     *)
(* resource (class Net) driving a Neutron control plane.                   *)
(*                                                                         *)
(* The controller is one Net resource.  Every remote call of a handler is  *)
(* one step, so that the remote side and external actors can be observed   *)
(* between two calls of the same handler.                                  *)
(***************************************************************************)
EXTENDS Integers, Sequences, FiniteSets, TLC

\* ---------------------------------------------------------------- bounds
\* longest dhcp_agent_ids list a template supplies
MaxLen == 2
\* most changes an external actor makes to the remote while one handler runs
MaxExternal == 1

\* ------------------------------------------------------------- constants
Agents == {"a", "b", "c"}
NetIds == {"net1", "net2"}
None == "None"
PhysName == "stack-net-phys"

\* Net.PROPERTIES (net.py 26-32), the keys the model carries
NAME == "name"
DHCP_AGENT_IDS == "dhcp_agent_ids"

\* status codes the code switches on
NotFound == 404
Conflict == 409

\* ------------------------------------------------------------ exceptions
\* a NeutronClientException: its status_code and whether it is the
\* NetworkNotFoundClient variant
Exc(s, nf) == [status |-> s, nf |-> nf]
NoExc == [status |-> -1, nf |-> FALSE]

\* a failure any remote call can meet whatever the remote state
ServerErrors == {Exc(500, FALSE)}
\* what a call naming a network the remote does not hold answers
GoneErrors == {Exc(NotFound, FALSE), Exc(NotFound, TRUE), Exc(0, TRUE)}

\* a failure a call on a network can meet whatever the remote state
OtherErrors == {Exc(Conflict, FALSE), Exc(500, FALSE)}

\* ------------------------------------------------------------ dict helpers
\* a Python dict is a function on its keys; an optional value (None or v) is
\* the set {} or {v}
Pop(d, k) == IF k \in DOMAIN d THEN {d[k]} ELSE {}
Without_kept(d, k) == d
Without(d, k) == [x \in DOMAIN d \ {k} |-> d[x]]
Merge(d, e) == [x \in DOMAIN d \cup DOMAIN e |-> IF x \in DOMAIN e THEN e[x] ELSE d[x]]
EmptyDict == [x \in {} |-> None]
Range(s) == {s[i] : i \in DOMAIN s}
\* Python truth of an optional list: neither None nor empty
Truthy_supplied(v) == v # {}
Truthy(v) == v # {} /\ \A s \in v : Len(s) > 0

\* ------------------------------------------------------------ inputs
AgentLists == UNION {[1..n -> Agents] : n \in 0..MaxLen}
\* the resolved template properties: each key holds its value or None
PropertySets ==
    [name : {{}, {"n1"}}, dhcp_agent_ids : {{}} \cup {{l} : l \in AgentLists}]
\* the keys handle_update can be told have changed (update_allowed=True)
UpdatableKeys == {NAME, DHCP_AGENT_IDS}

\* NeutronResource.prepare_properties: drop None values, default the name to
\* the physical resource name
prepare_properties(properties, name) ==
    [k \in {x \in DOMAIN properties : properties[x] # {}} \cup {NAME} |->
        IF properties[k] # {} THEN CHOOSE v \in properties[k] : TRUE ELSE name]
\* NeutronResource.prepare_update_properties: the update_allowed properties of
\* the new snippet, prepared the same way
prepare_update_properties(json_snippet) ==
    prepare_properties([k \in UpdatableKeys |-> json_snippet[k]], PhysName)
\* NeutronResource.is_built: the snapshot has reached the ready status
is_built(attributes) == attributes.status = "ACTIVE"

\* ------------------------------------------------------------ state
VARIABLES
    networks,        \* remote: network id -> [props, status, agents]
    resource_id,     \* the stored handle, None until create_network returns
    op,              \* the handler running or just finished, "none" when idle
    pc,              \* position in it: the next remote call, or "ret"
    dhcp_agent_ids,  \* local: the popped property ({} for None), until
                     \* _replace_dhcp_agents has turned it into a set
    prop_diff,       \* local: the keys of handle_update's prop_diff
    props,           \* local: the network payload
    old, new,        \* locals of _replace_dhcp_agents
    toAdd, toRemove, \* what the two for loops have still to visit
    reconcile,       \* _replace_dhcp_agents in this run: none/running/returned/raised
    calls,           \* the remote calls this run has issued, in order
    raised,          \* the exception the handler raised, NoExc if none
    result,          \* what a completion check returned: none/true/false
    external,        \* changes by external actors since this run started
    pre,             \* the remote state when this run started
    given,           \* what this run was called with: the keys of prop_diff
                     \* and whether dhcp_agent_ids was None, [] or a list
    settled,         \* {D} when the last run of _replace_dhcp_agents returned
                     \* for the desired set D, undisturbed, and nothing has
                     \* touched the associations since; {} otherwise
    rerun,           \* this run of _replace_dhcp_agents was called with the
                     \* D that was settled when it listed the agents
    failed,          \* {D} when the last run of _replace_dhcp_agents, for the
                     \* desired set D, raised after it had made some of its
                     \* changes, and nothing has happened since; {} otherwise
    retry,           \* this handler calls _replace_dhcp_agents with the D of
                     \* that failed run
    tracking,        \* which history is recorded, fixed at the start: FALSE
                     \* (Spec), the runs that returned, in settled; TRUE
                     \* (HealSpec), the runs that raised, in failed
    policy           \* the policy test case running and its last enforce
                     \* call: [test, pf, roles, i, action, verdict, passed]

locals == <<dhcp_agent_ids, prop_diff, props, old, new, toAdd, toRemove>>
vars == <<networks, resource_id, op, pc, dhcp_agent_ids, prop_diff, props,
          old, new, toAdd, toRemove, reconcile, calls, raised, result,
          external, pre, given, settled, rerun, failed, retry, tracking, policy>>

\* the state of the network resource and its remote
netvars == <<networks, resource_id, op, pc, dhcp_agent_ids, prop_diff, props,
             old, new, toAdd, toRemove, reconcile, calls, raised, result,
             external, pre, given, settled, rerun, failed, retry, tracking>>

\* no policy test case is running
NoPolicy == [test |-> "none", pf |-> "none", roles |-> <<>>, i |-> 0,
             action |-> "none", verdict |-> "none", passed |-> TRUE]

\* how the caller supplied dhcp_agent_ids
Kind(v) == IF v = {} THEN "None" ELSE IF v = {<<>>} THEN "empty" ELSE "list"
NoInput == [diff |-> {}, dhcp |-> "None"]

Call(fn, net, agent, payload, ex) ==
    [fn |-> fn, net |-> net, agent |-> agent, payload |-> payload, exc |-> ex]

InitState ==
    /\ networks = EmptyDict
    /\ resource_id = None
    /\ op = "none"
    /\ pc = "ret"
    /\ dhcp_agent_ids = {}
    /\ prop_diff = {}
    /\ props = EmptyDict
    /\ old = {}
    /\ new = {}
    /\ toAdd = {}
    /\ toRemove = {}
    /\ reconcile = "none"
    /\ calls = <<>>
    /\ raised = NoExc
    /\ result = "none"
    /\ external = 0
    /\ pre = EmptyDict
    /\ given = NoInput
    /\ settled = {}
    /\ rerun = FALSE
    /\ failed = {}
    /\ retry = FALSE
    /\ policy = NoPolicy
Init == InitState /\ tracking = FALSE
\* the same start, with the failed runs recorded
HealInit == InitState /\ tracking = TRUE

\* ------------------------------------------------------------ remote side
\* the outcomes of each remote call (NoExc: it succeeds); a call that fails
\* leaves the remote state as it was
CreateOutcomes == {NoExc} \cup OtherErrors
\* calls naming a network: gone network -> not found
NetOutcomes(nets, id) ==
    (IF id \in DOMAIN nets THEN {NoExc} ELSE GoneErrors) \cup OtherErrors
\* add_network_to_dhcp_agent: 409 means the agent is already associated
AddOutcomes(nets, id, agent) ==
    (IF id \notin DOMAIN nets THEN GoneErrors
     ELSE IF agent \in nets[id].agents THEN {Exc(Conflict, FALSE)}
     ELSE {NoExc, Exc(NotFound, FALSE)})
    \cup ServerErrors
\* remove_network_from_dhcp_agent: 404, the network or agent is already gone;
\* 409, the network is not scheduled by the agent
RemoveOutcomes(nets, id, agent) ==
    (IF id \notin DOMAIN nets THEN GoneErrors
     ELSE IF agent \notin nets[id].agents
          THEN {Exc(NotFound, FALSE), Exc(Conflict, FALSE)}
     ELSE {NoExc})
    \cup ServerErrors

\* ------------------------------------------------------------ decisions
\* new - old and old - new (net.py 162, 171)
ToAdd_all(n, o) == n
ToAdd(n, o) == n \ o
ToRemove_none(o, n) == {}
ToRemove_all(o, n) == o
ToRemove(o, n) == o \ n
\* the status an add call may fail with and be taken as done (net.py 168)
AddTolerated_none(ex) == FALSE
AddTolerated_wide(ex) == ex.status \in {Conflict, 500}
AddTolerated(ex) == ex.status = Conflict
\* the statuses a remove call may fail with and be taken as done (net.py 179)
RemoveTolerated_notfound(ex) == ex.status = NotFound
RemoveTolerated(ex) == ex.status \in {NotFound, Conflict}
\* _handle_not_found_exception returns instead of raising (net.py 152-153)
IsNotFound_status(ex) == ex.status = NotFound
IsNotFound_any(ex) == TRUE
IsNotFound(ex) == ex.status = NotFound \/ ex.nf
\* dhcp_agent_ids is not None (net.py 138)
IsNotNone_truthy(v) == v # {} /\ v # {<<>>}
IsNotNone(v) == v # {}
\* del prop_diff[key] (net.py 140)
DelKey_kept(diff, k) == diff
DelKey(diff, k) == diff \ {k}
\* len(prop_diff) > 0 (net.py 142)
UpdateNeeded_more(diff) == Cardinality(diff) > 1
UpdateNeeded(diff) == Cardinality(diff) > 0
\* self.resource_id_set(net['id']) (net.py 110)
ResourceIdSet_lost(id) == None
ResourceIdSet(id) == id
\* set([agent['id'] for agent in ret['agents']]) (net.py 159)
AgentIds(net) == net.agents
\* set(dhcp_agent_ids) (net.py 160)
IdSet(list) == Range(list)
\* return self.is_built(attributes) (net.py 121, 148)
CheckResult_built(attributes) == "true"
CheckResult(attributes) == IF is_built(attributes) THEN "true" ELSE "false"

\* what is left of the handler once _replace_dhcp_agents has returned:
\* nothing in handle_create; in handle_update the key is deleted from
\* prop_diff and update_network follows if keys remain (net.py 140-144)
ReconcileReturns(n) ==
    /\ reconcile' = "returned"
    /\ settled' = IF external = 0 /\ ~tracking THEN {n} ELSE {}
    /\ failed' = {}
    /\ raised' = raised
    /\ IF op = "update"
       THEN /\ prop_diff' = DelKey(prop_diff, DHCP_AGENT_IDS)
            /\ pc' = IF UpdateNeeded(prop_diff') THEN "update_network" ELSE "ret"
       ELSE /\ prop_diff' = prop_diff
            /\ pc' = "ret"
ReconcileRaises(ex) ==
    /\ reconcile' = "raised"
    /\ settled' = IF pc = "list" THEN settled ELSE {}
    /\ failed' = IF /\ tracking
                     /\ \E i \in DOMAIN calls :
                          /\ calls[i].fn \in {"add_network_to_dhcp_agent",
                                              "remove_network_from_dhcp_agent"}
                          /\ calls[i].exc = NoExc
                  THEN {new} ELSE {}
    /\ raised' = ex
    /\ prop_diff' = prop_diff
    /\ pc' = "ret"
\* the loops: adds first, then removes, then return
ReconcileGoesOn_removeFirst(adds, removes, n) ==
    IF removes # {} THEN
        /\ pc' = "remove"
        /\ settled' = {}
        /\ failed' = {}
        /\ UNCHANGED <<reconcile, raised, prop_diff>>
    ELSE IF adds # {} THEN
        /\ pc' = "add"
        /\ settled' = {}
        /\ failed' = {}
        /\ UNCHANGED <<reconcile, raised, prop_diff>>
    ELSE ReconcileReturns(n)
ReconcileGoesOn(adds, removes, n) ==
    IF adds # {} THEN
        /\ pc' = "add"
        /\ settled' = {}
        /\ failed' = {}
        /\ UNCHANGED <<reconcile, raised, prop_diff>>
    ELSE IF removes # {} THEN
        /\ pc' = "remove"
        /\ settled' = {}
        /\ failed' = {}
        /\ UNCHANGED <<reconcile, raised, prop_diff>>
    ELSE ReconcileReturns(n)

\* a handler starts on an idle controller: fresh locals, empty call record
Starts(name) ==
    /\ op = "none"
    /\ op' = name
    /\ external' = 0
    /\ pre' = networks
    /\ rerun' = FALSE
    /\ UNCHANGED <<tracking, policy>>

\* ------------------------------------------------------------ handlers
\* Net.handle_create up to and including resource_id_set (net.py 102-113)
handle_create(properties) ==
    /\ Starts("create")
    /\ resource_id = None
    /\ LET prepared == prepare_properties(properties, PhysName)
           ids == Pop(prepared, DHCP_AGENT_IDS)
           payload == Without(prepared, DHCP_AGENT_IDS)
       IN /\ dhcp_agent_ids' = ids
          /\ props' = payload
          /\ \E ex \in CreateOutcomes :
               /\ calls' = <<Call("create_network", None, None, payload, ex)>>
               /\ IF ex = NoExc
                  THEN \E id \in NetIds \ DOMAIN networks :
                         /\ networks' = [n \in DOMAIN networks \cup {id} |->
                                           IF n = id
                                           THEN [props |-> payload, status |-> "BUILD",
                                                 agents |-> {}]
                                           ELSE networks[n]]
                         /\ resource_id' = ResourceIdSet(id)
                         /\ raised' = NoExc
                         /\ IF Truthy(ids)
                            THEN pc' = "list" /\ reconcile' = "running"
                            ELSE pc' = "ret" /\ reconcile' = "none"
                  ELSE /\ raised' = ex
                       /\ pc' = "ret"
                       /\ reconcile' = "none"
                       /\ UNCHANGED <<networks, resource_id>>
    /\ given' = [diff |-> {}, dhcp |-> Kind(properties.dhcp_agent_ids)]
    /\ failed' = {}
    /\ retry' = FALSE
    /\ UNCHANGED <<prop_diff, old, new, toAdd, toRemove, result, settled>>

\* _replace_dhcp_agents: the list call and the two set differences
\* (net.py 157-162)
list_dhcp_agent_hosting_networks ==
    /\ pc = "list"
    /\ \E ex \in NetOutcomes(networks, resource_id) :
         /\ calls' = Append(calls, Call("list_dhcp_agent_hosting_networks",
                                        resource_id, None, EmptyDict, ex))
         /\ IF ex = NoExc
            THEN LET o == AgentIds(networks[resource_id])
                     n == IdSet(CHOOSE l \in dhcp_agent_ids : TRUE)
                 IN /\ old' = o
                    /\ new' = n
                    /\ toAdd' = ToAdd(n, o)
                    /\ toRemove' = ToRemove(o, n)
                    /\ ReconcileGoesOn(toAdd', toRemove', n)
            ELSE /\ ReconcileRaises(ex)
                 /\ UNCHANGED <<old, new, toAdd, toRemove>>
    /\ dhcp_agent_ids' = {}
    /\ rerun' = (settled = {Range(CHOOSE l \in dhcp_agent_ids : TRUE)})
    /\ UNCHANGED <<retry, tracking, policy>>
    /\ UNCHANGED <<networks, resource_id, op, props, result, external, pre, given>>

\* one turn of the first loop (net.py 162-169)
add_network_to_dhcp_agent ==
    /\ pc = "add"
    /\ \E dhcp_agent_id \in toAdd :
       \E ex \in AddOutcomes(networks, resource_id, dhcp_agent_id) :
         /\ calls' = Append(calls, Call("add_network_to_dhcp_agent",
                                        resource_id, dhcp_agent_id, EmptyDict, ex))
         /\ networks' = IF ex = NoExc
                        THEN [networks EXCEPT ![resource_id].agents =
                                                  @ \cup {dhcp_agent_id}]
                        ELSE networks
         /\ IF ex = NoExc \/ AddTolerated(ex)
            THEN /\ toAdd' = toAdd \ {dhcp_agent_id}
                 /\ ReconcileGoesOn(toAdd', toRemove, new)
            ELSE /\ toAdd' = toAdd
                 /\ ReconcileRaises(ex)
    /\ UNCHANGED <<resource_id, op, dhcp_agent_ids, props, old, new, toRemove,
                   result, external, pre, given, rerun, retry, tracking, policy>>

\* one turn of the second loop (net.py 171-180)
remove_network_from_dhcp_agent ==
    /\ pc = "remove"
    /\ \E dhcp_agent_id \in toRemove :
       \E ex \in RemoveOutcomes(networks, resource_id, dhcp_agent_id) :
         /\ calls' = Append(calls, Call("remove_network_from_dhcp_agent",
                                        resource_id, dhcp_agent_id, EmptyDict, ex))
         /\ networks' = IF ex = NoExc
                        THEN [networks EXCEPT ![resource_id].agents =
                                                  @ \ {dhcp_agent_id}]
                        ELSE networks
         /\ IF ex = NoExc \/ RemoveTolerated(ex)
            THEN /\ toRemove' = toRemove \ {dhcp_agent_id}
                 /\ ReconcileGoesOn({}, toRemove', new)
            ELSE /\ toRemove' = toRemove
                 /\ ReconcileRaises(ex)
    /\ UNCHANGED <<resource_id, op, dhcp_agent_ids, props, old, new, toAdd,
                   result, external, pre, given, rerun, retry, tracking, policy>>

\* Net.handle_update up to its first remote call (net.py 132-142)
handle_update(json_snippet, diff) ==
    /\ Starts("update")
    /\ resource_id # None
    /\ LET prepared == prepare_update_properties(json_snippet)
           ids == Pop(prepared, DHCP_AGENT_IDS)
       IN /\ dhcp_agent_ids' = ids
          /\ props' = Without(prepared, DHCP_AGENT_IDS)
          /\ IF DHCP_AGENT_IDS \in diff /\ IsNotNone(ids)
             THEN /\ prop_diff' = diff
                  /\ pc' = "list"
                  /\ reconcile' = "running"
             ELSE /\ prop_diff' = IF DHCP_AGENT_IDS \in diff
                                  THEN DelKey(diff, DHCP_AGENT_IDS) ELSE diff
                  /\ pc' = IF UpdateNeeded(prop_diff') THEN "update_network" ELSE "ret"
                  /\ reconcile' = "none"
          /\ retry' = (pc' = "list" /\ failed = {Range(l) : l \in ids})
    /\ failed' = {}
    /\ calls' = <<>>
    /\ raised' = NoExc
    /\ given' = [diff |-> diff, dhcp |-> Kind(json_snippet.dhcp_agent_ids)]
    /\ UNCHANGED <<networks, resource_id, old, new, toAdd, toRemove, result,
                   settled>>

\* self.neutron().update_network(...) (net.py 143-144)
update_network ==
    /\ pc = "update_network"
    /\ \E ex \in NetOutcomes(networks, resource_id) :
         /\ calls' = Append(calls, Call("update_network", resource_id, None, props, ex))
         /\ networks' = IF ex = NoExc
                        THEN [networks EXCEPT ![resource_id].props = Merge(@, props)]
                        ELSE networks
         /\ raised' = ex
    /\ pc' = "ret"
    /\ UNCHANGED <<resource_id, op, locals, reconcile, result, external, pre,
                   given, settled, rerun, failed, retry, tracking, policy>>

\* Net.handle_delete (net.py 123-130)
handle_delete ==
    /\ Starts("delete")
    /\ resource_id # None
    /\ \E ex \in NetOutcomes(networks, resource_id) :
         /\ calls' = <<Call("delete_network", resource_id, None, EmptyDict, ex)>>
         /\ networks' = IF ex = NoExc
                        THEN [n \in DOMAIN networks \ {resource_id} |-> networks[n]]
                        ELSE networks
         /\ raised' = IF ex = NoExc \/ IsNotFound(ex) THEN NoExc ELSE ex
    /\ pc' = "ret"
    /\ settled' = {}
    /\ failed' = {}
    /\ retry' = FALSE
    /\ UNCHANGED <<resource_id, locals, reconcile, result, given>>

\* _show_resource and is_built (net.py 115-121, 146-148)
check_complete(name) ==
    /\ Starts(name)
    /\ resource_id # None
    /\ \E ex \in NetOutcomes(networks, resource_id) :
         /\ calls' = <<Call("show_network", resource_id, None, EmptyDict, ex)>>
         /\ raised' = ex
         /\ result' = IF ex = NoExc THEN CheckResult(networks[resource_id])
                      ELSE "none"
    /\ pc' = "ret"
    /\ failed' = {}
    /\ retry' = FALSE
    /\ UNCHANGED <<networks, resource_id, locals, reconcile, given, settled>>

check_create_complete == check_complete("check_create")
check_update_complete == check_complete("check_update")

\* the handler has returned or raised: its frame is dropped and the
\* controller is idle again
Finish ==
    /\ op # "none"
    /\ pc = "ret"
    /\ op' = "none"
    /\ dhcp_agent_ids' = {}
    /\ prop_diff' = {}
    /\ props' = EmptyDict
    /\ old' = {}
    /\ new' = {}
    /\ toAdd' = {}
    /\ toRemove' = {}
    /\ reconcile' = "none"
    /\ calls' = <<>>
    /\ raised' = NoExc
    /\ result' = "none"
    /\ external' = 0
    /\ pre' = EmptyDict
    /\ given' = NoInput
    /\ rerun' = FALSE
    /\ retry' = FALSE
    /\ UNCHANGED <<networks, resource_id, pc, settled, failed, tracking, policy>>

\* ------------------------------------------------------------ environment
\* an external actor may act while the controller is idle, and up to
\* MaxExternal times between two remote calls of one handler
ExternalMayAct ==
    \/ op = "none"
    \/ pc # "ret" /\ external < MaxExternal
Acted ==
    /\ external' = IF op = "none" THEN 0 ELSE external + 1
    /\ settled' = {}
    /\ failed' = {}
    /\ UNCHANGED <<resource_id, op, pc, locals, reconcile, calls, raised,
                   result, pre, given, rerun, retry, tracking, policy>>

ExternalAdd ==
    /\ ExternalMayAct
    /\ \E id \in DOMAIN networks : \E a \in Agents \ networks[id].agents :
         networks' = [networks EXCEPT ![id].agents = @ \cup {a}]
    /\ Acted

ExternalRemove ==
    /\ ExternalMayAct
    /\ \E id \in DOMAIN networks : \E a \in networks[id].agents :
         networks' = [networks EXCEPT ![id].agents = @ \ {a}]
    /\ Acted

ExternalDelete ==
    /\ ExternalMayAct
    /\ \E id \in DOMAIN networks :
         networks' = [n \in DOMAIN networks \ {id} |-> networks[n]]
    /\ Acted

\* the remote finishes provisioning the network
RemoteBuilds ==
    /\ op = "none"
    /\ \E id \in DOMAIN networks :
         /\ networks[id].status = "BUILD"
         /\ networks' = [networks EXCEPT ![id].status = "ACTIVE"]
    /\ UNCHANGED <<resource_id, op, pc, locals, reconcile, calls, raised,
                   result, external, pre, given, settled, rerun, failed,
                   retry, tracking, policy>>

Next ==
    \/ \E properties \in PropertySets : handle_create(properties)
    \/ list_dhcp_agent_hosting_networks
    \/ add_network_to_dhcp_agent
    \/ remove_network_from_dhcp_agent
    \/ \E json_snippet \in PropertySets : \E diff \in SUBSET UpdatableKeys :
         handle_update(json_snippet, diff)
    \/ update_network
    \/ handle_delete
    \/ check_create_complete
    \/ check_update_complete
    \/ Finish
    \/ ExternalAdd
    \/ ExternalRemove
    \/ ExternalDelete
    \/ RemoteBuilds

Spec == Init /\ [][Next]_vars
\* the handlers that create, reconcile, update and delete, and the actors
\* that change the agents of a network, observed with the record of failed
\* runs; the completion checks and the provisioning status, which no
\* reconciliation reads, are left out
HealNext ==
    \/ \E properties \in PropertySets : handle_create(properties)
    \/ list_dhcp_agent_hosting_networks
    \/ add_network_to_dhcp_agent
    \/ remove_network_from_dhcp_agent
    \/ \E json_snippet \in PropertySets : \E diff \in SUBSET UpdatableKeys :
         handle_update(json_snippet, diff)
    \/ update_network
    \/ handle_delete
    \/ Finish
    \/ ExternalAdd
    \/ ExternalRemove
    \/ ExternalDelete

HealSpec == HealInit /\ [][HealNext]_vars

\* ------------------------------------------------------------ policy
\* TestPolicyEnforcer: the actions, policy files and role lists its test
\* cases use, and the enforcer they exercise
MaxRoles == 2

cfn_actions ==
    <<"ListStacks", "CreateStack", "DescribeStacks", "DeleteStack",
      "UpdateStack", "DescribeStackEvents", "ValidateTemplate", "GetTemplate",
      "EstimateTemplateCost", "DescribeStackResource", "DescribeStackResources">>

\* the policy file each test case hands to the enforcer
DefaultPolicyFile == "policy.json"
NotAllowedPolicyFile == "notallowed.json"
DenyStackUserPolicyFile == "deny_stack_user.json"
\* RequestContext(roles=[...]) of each test case
NoRoles == <<>>
StackUserRoles_none == <<>>
StackUserRoles == <<"heat_stack_user">>
NonStackUserRoles == <<"not_a_stack_user">>
RoleNames == {"heat_stack_user", "not_a_stack_user"}
RoleLists == UNION {[1..n -> RoleNames] : n \in 0..MaxRoles}

\* the rule a policy file gives an action in scope cloudformation: does it
\* let a context with these roles through
check(pf, roles, action) ==
    IF pf = NotAllowedPolicyFile THEN FALSE
    ELSE IF pf = DenyStackUserPolicyFile
         THEN \/ action = "DescribeStackResource"
              \/ "heat_stack_user" \notin Range(roles)
    ELSE TRUE
\* Enforcer.enforce(context, action, target): raises Forbidden or returns
enforce(pf, roles, action) ==
    IF check(pf, roles, action) THEN "allowed" ELSE "Forbidden"

\* one turn of the for loop of a test case: enforce the next action and
\* compare with what the test case expects (assertRaises or a plain call)
TestStep(name, pf, roles, forbidden) ==
    /\ \/ policy.test = "none"
       \/ policy.test = name /\ policy.passed
    /\ policy.i < Len(cfn_actions)
    /\ LET action == cfn_actions[policy.i + 1]
           verdict == enforce(pf, roles, action)
       IN policy' = [test |-> name, pf |-> pf, roles |-> roles,
                     i |-> policy.i + 1, action |-> action,
                     verdict |-> verdict,
                     passed |-> (verdict = "Forbidden") = (action \in forbidden)]
    /\ UNCHANGED netvars

test_policy_cfn_default ==
    TestStep("test_policy_cfn_default", DefaultPolicyFile, NoRoles, {})
test_policy_cfn_notallowed ==
    TestStep("test_policy_cfn_notallowed", NotAllowedPolicyFile, NoRoles,
             Range(cfn_actions))
test_policy_cfn_deny_stack_user ==
    TestStep("test_policy_cfn_deny_stack_user", DenyStackUserPolicyFile,
             StackUserRoles, Range(cfn_actions) \ {"DescribeStackResource"})
test_policy_cfn_allow_non_stack_user ==
    TestStep("test_policy_cfn_allow_non_stack_user", DenyStackUserPolicyFile,
             NonStackUserRoles, {})

\* the test case is over: its loop is through, or an expectation failed
tearDown ==
    /\ policy.test \notin {"none", "caller"}
    /\ policy.i = Len(cfn_actions) \/ ~policy.passed
    /\ policy' = NoPolicy
    /\ UNCHANGED netvars

\* any other caller of an enforcer built on one of the two policy files
\* that name their rule
EnforceCall ==
    /\ policy.test = "none"
    /\ \E pf \in {NotAllowedPolicyFile, DenyStackUserPolicyFile} :
       \E roles \in RoleLists : \E i \in DOMAIN cfn_actions :
         policy' = [test |-> "caller", pf |-> pf, roles |-> roles, i |-> i,
                    action |-> cfn_actions[i],
                    verdict |-> enforce(pf, roles, cfn_actions[i]),
                    passed |-> TRUE]
    /\ UNCHANGED netvars
EnforceReturns ==
    /\ policy.test = "caller"
    /\ policy' = NoPolicy
    /\ UNCHANGED netvars

PolicyNext ==
    \/ test_policy_cfn_default
    \/ test_policy_cfn_notallowed
    \/ test_policy_cfn_deny_stack_user
    \/ test_policy_cfn_allow_non_stack_user
    \/ tearDown
    \/ EnforceCall
    \/ EnforceReturns

PolicySpec == Init /\ [][PolicyNext]_vars

\* ------------------------------------------------------------ properties
\* the calls of this run to one endpoint, for one agent
CallsTo(fn, a) == {i \in DOMAIN calls : calls[i].fn = fn /\ calls[i].agent = a}
AddsTo(a) == CallsTo("add_network_to_dhcp_agent", a)
RemovesTo(a) == CallsTo("remove_network_from_dhcp_agent", a)
NoAssociationCall(cs) ==
    \A i \in DOMAIN cs : cs[i].fn \notin {"add_network_to_dhcp_agent",
                                          "remove_network_from_dhcp_agent"}
Tolerated(c) ==
    \/ c.fn = "add_network_to_dhcp_agent" /\ c.exc.status = 409
    \/ c.fn = "remove_network_from_dhcp_agent" /\ c.exc.status \in {404, 409}
Fatal(c) ==
    /\ c.fn \in {"add_network_to_dhcp_agent", "remove_network_from_dhcp_agent"}
    /\ c.exc # NoExc
    /\ ~Tolerated(c)

\* C1: convergence.  When _replace_dhcp_agents(D) has returned without
\* raising and no external actor has changed the remote during the run, the
\* association set the remote holds for the network equals D.
C1_Convergence ==
    (reconcile = "returned" /\ external = 0) =>
        /\ resource_id \in DOMAIN networks
        /\ networks[resource_id].agents = new

\* a run from O = {b, c} to D = {a, b} has returned and the remote holds D
C1_Witness ==
    /\ reconcile = "returned"
    /\ external = 0
    /\ old = {"b", "c"}
    /\ new = {"a", "b"}
    /\ networks[resource_id].agents = {"a", "b"}

\* C2: minimal diff.  A run of _replace_dhcp_agents never calls add for an
\* agent outside D minus O nor remove for an agent outside O minus D, never
\* calls either twice for one agent, and once it has returned it has called
\* add exactly once for each agent of D minus O and remove exactly once for
\* each agent of O minus D; O is the set the remote held when it was listed.
C2_MinimalDiff ==
    /\ \A a \in Agents :
         /\ Cardinality(AddsTo(a)) <= (IF a \in new \ old THEN 1 ELSE 0)
         /\ Cardinality(RemovesTo(a)) <= (IF a \in old \ new THEN 1 ELSE 0)
         /\ reconcile = "returned" =>
              /\ Cardinality(AddsTo(a)) = (IF a \in new \ old THEN 1 ELSE 0)
              /\ Cardinality(RemovesTo(a)) = (IF a \in old \ new THEN 1 ELSE 0)
    /\ (op = "update" /\ reconcile = "returned" /\ external = 0) =>
         old = pre[resource_id].agents

\* D = {a, b}, O = {b, c}: one add(a), one remove(c), nothing touching b
C2_Witness ==
    /\ reconcile = "returned"
    /\ old = {"b", "c"}
    /\ new = {"a", "b"}
    /\ Cardinality(AddsTo("a")) = 1
    /\ Cardinality(RemovesTo("c")) = 1
    /\ AddsTo("b") \cup RemovesTo("b") = {}

\* C3: idempotence.  When the last run of _replace_dhcp_agents returned for
\* D, nothing has touched the associations since, and a second run is made
\* for the same D, that run issues no add call and no remove call, and it
\* raises nothing: it returns as soon as its list call is answered (only a
\* failure of the list call itself can end it otherwise).
C3_Idempotent ==
    (rerun /\ reconcile # "none") =>
        /\ NoAssociationCall(calls)
        /\ pc \notin {"add", "remove"}
        /\ toAdd = {}
        /\ toRemove = {}
        /\ calls[Len(calls)].exc = NoExc => (reconcile = "returned" /\ raised = NoExc)
        /\ reconcile = "raised" =>
             /\ calls[Len(calls)].fn = "list_dhcp_agent_hosting_networks"
             /\ calls[Len(calls)].exc = raised

\* a second run for D = {a, b} has returned after its list call alone
C3_Witness ==
    /\ op = "update"
    /\ rerun
    /\ reconcile = "returned"
    /\ pc = "ret"
    /\ new = {"a", "b"}
    /\ old = {"a", "b"}
    /\ Len(calls) = 1

\* C4: tolerated association errors.  An add call answered 409, and a
\* remove call answered 404 or 409, raises nothing: the agent is struck off
\* the loop like one whose call succeeded, and the run goes on with the
\* remaining agents of the phase, then with the next phase, then returns.
C4_Tolerated ==
    [][(/\ Len(calls') = Len(calls) + 1
        /\ Tolerated(calls'[Len(calls')]))
       => LET c == calls'[Len(calls')] IN
          /\ raised' = NoExc
          /\ reconcile' # "raised"
          /\ networks' = networks
          /\ c.fn = "add_network_to_dhcp_agent" =>
               /\ toAdd' = toAdd \ {c.agent}
               /\ toRemove' = toRemove
               /\ pc' = IF toAdd' # {} THEN "add"
                        ELSE IF toRemove' # {} THEN "remove"
                        ELSE IF op = "update" /\ prop_diff' # {}
                             THEN "update_network" ELSE "ret"
          /\ c.fn = "remove_network_from_dhcp_agent" =>
               /\ toRemove' = toRemove \ {c.agent}
               /\ pc' = IF toRemove' # {} THEN "remove"
                        ELSE IF op = "update" /\ prop_diff' # {}
                             THEN "update_network" ELSE "ret"
          /\ (toAdd' = {} /\ toRemove' = {}) => reconcile' = "returned"]_vars

\* an add answered 409 was followed by a further add and by a remove, and
\* the run returned
C4_Witness ==
    /\ reconcile = "returned"
    /\ raised = NoExc
    /\ \E i, j, k \in DOMAIN calls :
         /\ i < j /\ j < k
         /\ calls[i].fn = "add_network_to_dhcp_agent"
         /\ calls[i].exc.status = 409
         /\ calls[j].fn = "add_network_to_dhcp_agent"
         /\ calls[k].fn = "remove_network_from_dhcp_agent"

\* C5: fail and stop.  An add call failing with a status other than 409, or
\* a remove call failing with a status other than 404 and 409, is the last
\* remote call of the run: the handler has raised that very exception, with
\* its status code, and issues no add, remove or update call after it.
C5_FailAndStop ==
    \A i \in DOMAIN calls :
        Fatal(calls[i]) =>
            /\ i = Len(calls)
            /\ raised = calls[i].exc
            /\ raised.status = calls[i].exc.status
            /\ reconcile = "raised"
            /\ pc = "ret"

\* toAdd = {a, b}: the first add failed with 500, b was never added and the
\* remove of c was never issued
C5_Witness ==
    /\ op = "update"
    /\ reconcile = "raised"
    /\ raised.status = 500
    /\ old = {"c"}
    /\ new = {"a", "b"}
    /\ Len(calls) = 2
    /\ calls[2].fn = "add_network_to_dhcp_agent"
    /\ toAdd = {"a", "b"}
    /\ toRemove = {"c"}
    /\ pc = "ret"

\* C6: idempotent delete.  handle_delete does not raise when delete_network
\* fails with status 404 or with the NetworkNotFoundClient variant, whether
\* or not the network was already gone when it was called.
C6_IdempotentDelete ==
    (/\ op = "delete"
     /\ pc = "ret"
     /\ \/ calls[1].exc.status = 404
        \/ calls[1].exc.nf)
    => raised = NoExc

\* a delete of a network that was already gone met the NetworkNotFoundClient
\* variant carrying no 404 and returned
C6_Witness ==
    /\ op = "delete"
    /\ pc = "ret"
    /\ resource_id \notin DOMAIN pre
    /\ calls[1].exc.nf
    /\ calls[1].exc.status # 404
    /\ raised = NoExc

\* C7: association-only update.  When the prop_diff handle_update is called
\* with holds dhcp_agent_ids alone, the run issues no update_network call;
\* if a value was supplied the agents are listed, and once the run has
\* returned it has called add for exactly the agents of D minus O and remove
\* for exactly those of O minus D, which leaves the remote holding D when no
\* external actor interferes.
C7_AssociationOnly ==
    (op = "update" /\ given.diff = {"dhcp_agent_ids"}) =>
        /\ \A i \in DOMAIN calls : calls[i].fn # "update_network"
        /\ pc # "update_network"
        /\ (given.dhcp # "None" /\ pc = "ret") =>
             /\ Len(calls) >= 1
             /\ calls[1].fn = "list_dhcp_agent_hosting_networks"
        /\ (pc = "ret" /\ raised = NoExc /\ given.dhcp # "None") =>
             /\ reconcile = "returned"
             /\ {a \in Agents : AddsTo(a) # {}} = new \ old
             /\ {a \in Agents : RemovesTo(a) # {}} = old \ new
             /\ external = 0 =>
                  /\ old = pre[resource_id].agents
                  /\ networks[resource_id].agents = new

\* an update whose diff was dhcp_agent_ids alone took {b, c} to {a, b}
C7_Witness ==
    /\ op = "update"
    /\ given.diff = {"dhcp_agent_ids"}
    /\ pc = "ret"
    /\ raised = NoExc
    /\ external = 0
    /\ resource_id \in DOMAIN pre
    /\ pre[resource_id].agents = {"b", "c"}
    /\ networks[resource_id].agents = {"a", "b"}
    /\ Len(calls) = 3

\* C8 as claimed: whenever handle_create has raised, no resource_id is
\* assigned.
C8_NoHandleAfterFailedCreate ==
    (op = "create" /\ pc = "ret" /\ raised # NoExc) => resource_id = None

\* C8 as amended: when handle_create has raised, no resource_id is assigned
\* if it is create_network that failed; if create_network succeeded and the
\* association reconciliation raised, the id create_network returned stays
\* assigned.
C8_HandleAfterFailedCreate ==
    (op = "create" /\ pc = "ret" /\ raised # NoExc) =>
        /\ calls[1].fn = "create_network"
        /\ calls[1].exc # NoExc =>
             /\ resource_id = None
             /\ Len(calls) = 1
             /\ networks = pre
        /\ calls[1].exc = NoExc =>
             /\ resource_id \in NetIds
             /\ reconcile = "raised"
             /\ external = 0 => resource_id \in DOMAIN networks

\* create_network succeeded, the reconciliation raised, the handle is kept
C8_Witness ==
    /\ op = "create"
    /\ pc = "ret"
    /\ raised # NoExc
    /\ reconcile = "raised"
    /\ resource_id \in DOMAIN networks

\* C9 as claimed: whenever handle_update has raised (and no external actor
\* has acted meanwhile), the remote state is what it was when handle_update
\* was called.
C9_UpdateFailureRestores ==
    (op = "update" /\ pc = "ret" /\ raised # NoExc /\ external = 0) =>
        networks = pre

\* C9 as amended: whenever handle_update has raised (and no external actor
\* has acted meanwhile), the network fields of the remote are what they were
\* when it was called; the agent associations are unchanged if the agents
\* were never listed, and otherwise each agent is associated either as
\* before or as desired.
C9_UpdateFailureKeepsFields ==
    (/\ op = "update" /\ pc = "ret" /\ raised # NoExc /\ external = 0
     /\ resource_id \in DOMAIN pre) =>
        /\ resource_id \in DOMAIN networks
        /\ networks[resource_id].props = pre[resource_id].props
        /\ networks[resource_id].status = pre[resource_id].status
        /\ LET now == networks[resource_id].agents
               before == pre[resource_id].agents
           IN IF Len(calls) >= 1
                 /\ calls[1].fn = "list_dhcp_agent_hosting_networks"
                 /\ calls[1].exc = NoExc
              THEN /\ before \cap new \subseteq now
                   /\ now \subseteq before \cup new
                   /\ \A a \in now \ before : AddsTo(a) # {}
                   /\ \A a \in before \ now : RemovesTo(a) # {}
              ELSE now = before

\* both dhcp_agent_ids and name changed, the associations were reconciled,
\* then update_network failed: the associations are the new ones
C9_Witness ==
    /\ op = "update"
    /\ pc = "ret"
    /\ raised # NoExc
    /\ external = 0
    /\ given.diff = {"name", "dhcp_agent_ids"}
    /\ reconcile = "returned"
    /\ calls[Len(calls)].fn = "update_network"
    /\ resource_id \in DOMAIN pre
    /\ pre[resource_id].agents = {"b", "c"}
    /\ networks[resource_id].agents = {"a", "b"}

\* C10: polling is a single-shot predicate on fresh state.  A call of
\* check_create_complete or check_update_complete issues one show_network on
\* the stored handle and nothing else, leaves the handle and the remote as
\* they were, raises what show_network raised, and otherwise returns true
\* exactly when the status just fetched is the built one.
C10_Polling ==
    [][(op = "none" /\ op' \in {"check_create", "check_update"}) =>
         /\ pc' = "ret"
         /\ Len(calls') = 1
         /\ calls'[1].fn = "show_network"
         /\ calls'[1].net = resource_id
         /\ resource_id' = resource_id
         /\ networks' = networks
         /\ raised' = calls'[1].exc
         /\ IF calls'[1].exc = NoExc
            THEN /\ networks[resource_id].status = "ACTIVE" => result' = "true"
                 /\ networks[resource_id].status = "BUILD" => result' = "false"
            ELSE result' = "none"]_vars

\* the remote went from BUILD to ACTIVE and check_create_complete, which
\* returns false on BUILD, has returned true
C10_Witness ==
    /\ op = "check_create"
    /\ pc = "ret"
    /\ result = "true"
    /\ Len(calls) = 1
    /\ networks[resource_id].status = "ACTIVE"

IsAssociationCall(c) ==
    c.fn \in {"list_dhcp_agent_hosting_networks", "add_network_to_dhcp_agent",
              "remove_network_from_dhcp_agent"}

\* C11 as claimed: whenever handle_create is given a dhcp_agent_ids value,
\* the empty list included, and create_network has returned, the agents are
\* listed next.
C11_CreateReconcilesSupplied ==
    (/\ op = "create" /\ pc = "ret"
     /\ given.dhcp # "None"
     /\ calls[1].exc = NoExc)
    => (Len(calls) >= 2 /\ calls[2].fn = "list_dhcp_agent_hosting_networks")

\* C11 as amended: whenever handle_create is given a non-empty
\* dhcp_agent_ids list, the association reconciliation is the very next
\* thing after create_network has returned and its id has been stored, on
\* that id, and no association call is ever made before create_network has
\* returned; given None or the empty list, handle_create makes no
\* association call at all.
C11_CreateReconcilesNonEmpty ==
    op = "create" =>
        /\ calls[1].fn = "create_network"
        /\ \A i \in DOMAIN calls :
             IsAssociationCall(calls[i]) =>
                 /\ i > 1
                 /\ calls[1].exc = NoExc
                 /\ resource_id # None
                 /\ calls[i].net = resource_id
        /\ (given.dhcp = "list" /\ calls[1].exc = NoExc) =>
             /\ reconcile # "none"
             /\ \/ pc = "list" /\ Len(calls) = 1
                \/ Len(calls) >= 2 /\ calls[2].fn = "list_dhcp_agent_hosting_networks"
        /\ given.dhcp # "list" =>
             /\ Len(calls) = 1
             /\ pc = "ret"
             /\ reconcile = "none"

\* a create given [a, b] stored the id and then listed and added the agents
C11_Witness ==
    /\ op = "create"
    /\ pc = "ret"
    /\ given.dhcp = "list"
    /\ reconcile = "returned"
    /\ Len(calls) = 4
    /\ calls[2].fn = "list_dhcp_agent_hosting_networks"
    /\ calls[2].net = resource_id
    /\ resource_id \in DOMAIN networks
    /\ networks[resource_id].agents = {"a", "b"}

\* the failures the handlers may swallow
Swallowed(c) ==
    \/ c.fn = "add_network_to_dhcp_agent" /\ c.exc.status = 409
    \/ c.fn = "remove_network_from_dhcp_agent" /\ c.exc.status \in {404, 409}
    \/ c.fn = "delete_network" /\ (c.exc.status = 404 \/ c.exc.nf)

\* C12: fail-closed error propagation.  A remote call that failed otherwise
\* than add-409, remove-404, remove-409 or delete-404/NetworkNotFound is the
\* last call of its handler, and the handler has raised exactly the
\* exception that call raised; a handler raises nothing else.
C12_FailClosed ==
    /\ \A i \in DOMAIN calls :
         (calls[i].exc # NoExc /\ ~Swallowed(calls[i])) =>
             /\ i = Len(calls)
             /\ pc = "ret"
             /\ raised = calls[i].exc
    /\ raised # NoExc =>
         /\ Len(calls) >= 1
         /\ raised = calls[Len(calls)].exc
         /\ ~Swallowed(calls[Len(calls)])

\* an add answered 404 is raised as it is
C12_Witness ==
    /\ pc = "ret"
    /\ Len(calls) >= 2
    /\ calls[Len(calls)].fn = "add_network_to_dhcp_agent"
    /\ calls[Len(calls)].exc.status = 404
    /\ raised = calls[Len(calls)].exc

\* C13: the association field never reaches the network payload.  No
\* payload sent with create_network or update_network holds the key
\* dhcp_agent_ids; it holds the network's own fields.
C13_PayloadWithoutAssociation ==
    \A i \in DOMAIN calls :
        calls[i].fn \in {"create_network", "update_network"} =>
            /\ "dhcp_agent_ids" \notin DOMAIN calls[i].payload
            /\ "name" \in DOMAIN calls[i].payload

\* an update given a list, with both keys in the diff, sent its payload
C13_Witness ==
    /\ op = "update"
    /\ given.dhcp = "list"
    /\ given.diff = {"name", "dhcp_agent_ids"}
    /\ Len(calls) >= 1
    /\ calls[Len(calls)].fn = "update_network"
    /\ calls[Len(calls)].exc = NoExc
    /\ DOMAIN calls[Len(calls)].payload = {"name"}

\* C14: empty versus absent on update.  With dhcp_agent_ids in the diff and
\* an empty list as its value, handle_update lists the agents and
\* reconciles towards the empty set: no add call, and once it has returned
\* one remove call for every agent the list call observed.  With
\* dhcp_agent_ids not in the diff, or in the diff with None as its value,
\* it makes no list, add or remove call.
C14_EmptyVersusAbsent ==
    op = "update" =>
        /\ ("dhcp_agent_ids" \in given.diff /\ given.dhcp = "empty") =>
             /\ reconcile # "none"
             /\ pc = "ret" => calls[1].fn = "list_dhcp_agent_hosting_networks"
             /\ \A a \in Agents : AddsTo(a) = {}
             /\ (Len(calls) >= 1 /\ calls[1].exc = NoExc) => new = {}
             /\ reconcile = "returned" =>
                  /\ \A a \in Agents :
                       Cardinality(RemovesTo(a)) = (IF a \in old THEN 1 ELSE 0)
                  /\ external = 0 =>
                       /\ old = pre[resource_id].agents
                       /\ networks[resource_id].agents = {}
        /\ ("dhcp_agent_ids" \notin given.diff \/ given.dhcp = "None") =>
             /\ reconcile = "none"
             /\ \A i \in DOMAIN calls : ~IsAssociationCall(calls[i])
             /\ pc \notin {"list", "add", "remove"}

\* an update whose diff holds dhcp_agent_ids = [] removed both agents
C14_Witness ==
    /\ op = "update"
    /\ "dhcp_agent_ids" \in given.diff
    /\ given.dhcp = "empty"
    /\ reconcile = "returned"
    /\ external = 0
    /\ old = {"a", "b"}
    /\ Len(calls) >= 3
    /\ networks[resource_id].agents = {}

ListCalls == {i \in DOMAIN calls : calls[i].fn = "list_dhcp_agent_hosting_networks"}
AddCalls == {i \in DOMAIN calls : calls[i].fn = "add_network_to_dhcp_agent"}
RemoveCalls == {i \in DOMAIN calls : calls[i].fn = "remove_network_from_dhcp_agent"}
UpdateCalls == {i \in DOMAIN calls : calls[i].fn = "update_network"}

\* C16: ordering inside a reconciliation.  Within one run of
\* _replace_dhcp_agents there is a single list call and it comes before
\* every add and every remove call; every add call comes before every
\* remove call; no remove call is made while an add is still pending.
C16_Ordering ==
    /\ Cardinality(ListCalls) <= 1
    /\ \A i \in AddCalls \cup RemoveCalls :
         \E j \in ListCalls : j < i /\ calls[j].exc = NoExc
    /\ \A i \in AddCalls : \A j \in RemoveCalls : i < j
    /\ (pc = "remove" \/ RemoveCalls # {}) => toAdd = {}
    /\ pc \in {"add", "remove"} => Cardinality(ListCalls) = 1

\* a run that listed, added two agents and then removed one
C16_Witness ==
    /\ reconcile = "returned"
    /\ Cardinality(ListCalls) = 1
    /\ Cardinality(AddCalls) = 2
    /\ Cardinality(RemoveCalls) = 1
    /\ \A i \in AddCalls : \A j \in RemoveCalls : i < j

\* C18: no rollback of the network when the association fails at create.
\* When create_network has succeeded and _replace_dhcp_agents raises inside
\* handle_create, handle_create raises that error, resource_id stays the id
\* of the network just created, and no delete_network call is made.
C18_NoRollback ==
    (op = "create" /\ reconcile = "raised") =>
        /\ pc = "ret"
        /\ calls[1].fn = "create_network"
        /\ calls[1].exc = NoExc
        /\ Len(calls) >= 2
        /\ IsAssociationCall(calls[Len(calls)])
        /\ raised # NoExc
        /\ raised = calls[Len(calls)].exc
        /\ resource_id \in NetIds \ DOMAIN pre
        /\ \A i \in DOMAIN calls :
             /\ calls[i].fn # "delete_network"
             /\ i > 1 => calls[i].net = resource_id
        /\ external = 0 =>
             /\ resource_id \in DOMAIN networks
             /\ \A id \in DOMAIN pre : id \in DOMAIN networks

\* one agent was associated, the next add failed: the network is still
\* there with the one agent, and the handle names it
C18_Witness ==
    /\ op = "create"
    /\ reconcile = "raised"
    /\ external = 0
    /\ Len(calls) = 4
    /\ calls[3].exc = NoExc
    /\ calls[4].fn = "add_network_to_dhcp_agent"
    /\ calls[4].exc.status = 500
    /\ resource_id \in DOMAIN networks
    /\ Cardinality(networks[resource_id].agents) = 1

\* C19: update ordering.  When the diff of an update holds dhcp_agent_ids
\* and another property, the reconciliation (which runs when the value is
\* not None) completes before update_network is called; if the
\* reconciliation raises, update_network is not called; if it returns,
\* update_network is called exactly once.
C19_UpdateOrdering ==
    (/\ op = "update"
     /\ {"dhcp_agent_ids", "name"} \subseteq given.diff) =>
        /\ Cardinality(UpdateCalls) <= 1
        /\ \A i \in UpdateCalls :
             /\ i = Len(calls)
             /\ reconcile = (IF given.dhcp = "None" THEN "none" ELSE "returned")
             /\ pc = "ret"
             /\ \A j \in 1..(i - 1) :
                  /\ IsAssociationCall(calls[j])
                  /\ calls[j].exc = NoExc \/ Tolerated(calls[j])
        /\ reconcile = "raised" => (UpdateCalls = {} /\ pc = "ret")
        /\ reconcile = "running" => (UpdateCalls = {} /\ pc \in {"list", "add", "remove"})
        /\ pc = "update_network" => (reconcile # "running" /\ UpdateCalls = {})
        /\ (reconcile = "returned" /\ pc = "ret") => Cardinality(UpdateCalls) = 1
        /\ reconcile = "none" <=> given.dhcp = "None"

\* the reconciliation added and removed, then the one update_network went out
C19_Witness ==
    /\ op = "update"
    /\ given.diff = {"name", "dhcp_agent_ids"}
    /\ given.dhcp = "list"
    /\ reconcile = "returned"
    /\ pc = "ret"
    /\ AddCalls # {}
    /\ RemoveCalls # {}
    /\ UpdateCalls = {Len(calls)}
    /\ raised = NoExc

LastCall(cs) == cs[Len(cs)]

\* C20: tolerance of a concurrent mutator.  When, between the list call
\* and an add or remove call of one run, another actor has changed the
\* agents of the network so that the call finds the agent already
\* associated (add) or no longer associated (remove), the answer the remote
\* gives for that does not make the run raise.
C20_ToleratesInterleaving ==
    [][(/\ pc \in {"add", "remove"}
        /\ Len(calls') = Len(calls) + 1
        /\ resource_id \in DOMAIN networks) =>
          LET c == LastCall(calls')
              stale == IF pc = "add"
                       THEN c.agent \in networks[resource_id].agents
                       ELSE c.agent \notin networks[resource_id].agents
          IN (stale /\ c.exc \notin ServerErrors) =>
                /\ c.exc # NoExc
                /\ reconcile' # "raised"
                /\ raised' = NoExc
                /\ networks' = networks
                /\ IF pc = "add" THEN toAdd' = toAdd \ {c.agent}
                                 ELSE toRemove' = toRemove \ {c.agent}]_vars

\* another actor associated an agent after the list call; the add of that
\* agent was answered 409 and the run returned
C20_Witness ==
    /\ external > 0
    /\ reconcile = "returned"
    /\ resource_id \in DOMAIN networks
    /\ \E i \in AddCalls :
         /\ calls[i].exc.status = 409
         /\ calls[i].agent \notin old
         /\ calls[i].agent \in networks[resource_id].agents

\* C17: self-healing after a partial failure.  When a run of
\* _replace_dhcp_agents(D) raised after it had made some of its changes,
\* a later run with the same D in which every add and remove call succeeds
\* or fails with a tolerated status does not raise, and, no other actor
\* having touched the network during it, ends with the remote agent set
\* equal to D.
C17_SelfHealing ==
    (retry /\ pc \notin {"list", "add", "remove"}) =>
        /\ reconcile \in {"returned", "raised"}
        /\ (\A i \in DOMAIN calls : IsAssociationCall(calls[i]) =>
                (calls[i].exc = NoExc \/ Tolerated(calls[i]))) =>
             /\ reconcile = "returned"
             /\ UpdateCalls = {} => raised = NoExc
             /\ failed = {}
             /\ external = 0 =>
                  /\ resource_id \in DOMAIN networks
                  /\ networks[resource_id].agents = new

\* the run after the failed one found part of the work done, added and
\* removed what was left, and the remote set is D
C17_Witness ==
    /\ retry
    /\ reconcile = "returned"
    /\ external = 0
    /\ AddCalls # {}
    /\ RemoveCalls # {}
    /\ old # {}
    /\ resource_id \in DOMAIN networks
    /\ networks[resource_id].agents = new

====
